---- MODULE Spec2Model ----
(***************************************************************************)
(* Branch status classification and worktree clean-up of grove             *)
(* (src/gtwsp/cli.py, src/grv/cli.py).                                     *)
(*                                                                         *)
(* Text is a sequence of tokens: one token per digit, blank and newline,   *)
(* and one token per word ("insertion", "deletion", a branch name, ...).   *)
(* A git sub-process is a record [returncode, stdout].                     *)
(***************************************************************************)
EXTENDS Integers, Sequences, FiniteSets, TLC

\* ------------------------------------------------------------------ bounds

\* Largest count a diff summary reports (two digits, so that int() of a
\* digit run is exercised).
MaxNum == 10

\* Largest number of commits a branch is ahead of a reference.
MaxAhead == 1

\* ------------------------------------------------------- python str helpers

DigitChars == <<"0", "1", "2", "3", "4", "5", "6", "7", "8", "9">>

Whitespace == {" ", "\t", "\n"}

IsDigit(c) == \E i \in 1..10 : DigitChars[i] = c

DigitVal(c) == (CHOOSE i \in 1..10 : DigitChars[i] = c) - 1

RECURSIVE lstrip(_, _)
lstrip(s, chars) ==
    IF s # <<>> /\ Head(s) \in chars THEN lstrip(Tail(s), chars) ELSE s

RECURSIVE rstrip(_, _)
rstrip(s, chars) ==
    IF s # <<>> /\ s[Len(s)] \in chars
    THEN rstrip(SubSeq(s, 1, Len(s) - 1), chars)
    ELSE s

strip(s) == rstrip(lstrip(s, Whitespace), Whitespace)

\* s.split(sep): a text without sep is one piece, "" splits to [""].
RECURSIVE split(_, _)
split(s, sep) ==
    IF \E i \in 1..Len(s) : s[i] = sep
    THEN LET i == CHOOSE k \in 1..Len(s) :
                     s[k] = sep /\ \A j \in 1..(k - 1) : s[j] # sep
         IN  <<SubSeq(s, 1, i - 1)>> \o split(SubSeq(s, i + 1, Len(s)), sep)
    ELSE <<s>>

\* int(s) of a run of digits.
RECURSIVE int(_)
int(s) ==
    IF s = <<>> THEN 0
    ELSE 10 * int(SubSeq(s, 1, Len(s) - 1)) + DigitVal(s[Len(s)])

\* "word" in s
contains(s, word) == \E i \in 1..Len(s) : s[i] = word

\* The end of the run of digits that starts at i.
RECURSIVE DigitRunEnd(_, _)
DigitRunEnd(s, i) ==
    IF i < Len(s) /\ IsDigit(s[i + 1]) THEN DigitRunEnd(s, i + 1) ELSE i

\* Whether r"(\d+) word" matches at position i (\d+ is greedy, and a shorter
\* run cannot be followed by the blank).
MatchesAt(s, i, word) ==
    /\ IsDigit(s[i])
    /\ LET e == DigitRunEnd(s, i)
       IN  /\ e + 2 <= Len(s)
           /\ s[e + 1] = " "
           /\ s[e + 2] = word

\* re.search(r"(\d+) word", s).group(1), or <<>> for no match: the leftmost
\* match.
re_search(s, word) ==
    IF \E i \in 1..Len(s) : MatchesAt(s, i, word)
    THEN LET i == CHOOSE k \in 1..Len(s) :
                     /\ MatchesAt(s, k, word)
                     /\ \A j \in 1..(k - 1) : ~MatchesAt(s, j, word)
         IN  SubSeq(s, i, DigitRunEnd(s, i))
    ELSE <<>>

\* ---------------------------------------------------------- BranchStatus

NoStatus == [name |-> "-"]

BranchStatus(name, path, has_remote, is_merged, unpushed_commits, d) ==
    [name |-> name, path |-> path, has_remote |-> has_remote,
     is_merged |-> is_merged, unpushed_commits |-> unpushed_commits,
     uncommitted_changes |-> d.uncommitted_changes,
     insertions |-> d.insertions, deletions |-> d.deletions]

\* is_safe_to_clean without the has_remote conjunct.
is_safe_to_clean_no_remote(self) ==
    self.unpushed_commits = 0 /\ self.uncommitted_changes = 0

is_safe_to_clean(self) ==
    self.has_remote /\ self.unpushed_commits = 0 /\ self.uncommitted_changes = 0

\* ------------------------------------------------------ get_branch_status

\* Variants of parse_diff_stat with a slip: the first line instead of the
\* last, and a total that forgets the deletions.
parse_diff_stat_first_line(stdout) ==
    IF strip(stdout) # <<>>
    THEN LET lines == split(strip(stdout), "\n")
             summary == lines[1]
         IN  IF contains(summary, "insertion") \/ contains(summary, "deletion")
             THEN LET ins_match == re_search(summary, "insertion")
                      del_match == re_search(summary, "deletion")
                      insertions == IF ins_match # <<>> THEN int(ins_match) ELSE 0
                      deletions == IF del_match # <<>> THEN int(del_match) ELSE 0
                  IN  [insertions |-> insertions, deletions |-> deletions,
                       uncommitted_changes |-> insertions + deletions]
             ELSE [insertions |-> 0, deletions |-> 0, uncommitted_changes |-> 0]
    ELSE [insertions |-> 0, deletions |-> 0, uncommitted_changes |-> 0]

parse_diff_stat_ins_only(stdout) ==
    IF strip(stdout) # <<>>
    THEN LET lines == split(strip(stdout), "\n")
             summary == lines[Len(lines)]
         IN  IF contains(summary, "insertion") \/ contains(summary, "deletion")
             THEN LET ins_match == re_search(summary, "insertion")
                      del_match == re_search(summary, "deletion")
                      insertions == IF ins_match # <<>> THEN int(ins_match) ELSE 0
                      deletions == IF del_match # <<>> THEN int(del_match) ELSE 0
                  IN  [insertions |-> insertions, deletions |-> deletions,
                       uncommitted_changes |-> insertions]
             ELSE [insertions |-> 0, deletions |-> 0, uncommitted_changes |-> 0]
    ELSE [insertions |-> 0, deletions |-> 0, uncommitted_changes |-> 0]

\* Lines 182-195, the part of the diff --stat output that is parsed: the
\* last line of the stripped output, and in it the number before
\* " insertion" and the number before " deletion".
parse_diff_stat(stdout) ==
    IF strip(stdout) # <<>>
    THEN LET lines == split(strip(stdout), "\n")
             summary == lines[Len(lines)]
         IN  IF contains(summary, "insertion") \/ contains(summary, "deletion")
             THEN LET ins_match == re_search(summary, "insertion")
                      del_match == re_search(summary, "deletion")
                      insertions == IF ins_match # <<>> THEN int(ins_match) ELSE 0
                      deletions == IF del_match # <<>> THEN int(del_match) ELSE 0
                  IN  [insertions |-> insertions, deletions |-> deletions,
                       uncommitted_changes |-> insertions + deletions]
             ELSE [insertions |-> 0, deletions |-> 0, uncommitted_changes |-> 0]
    ELSE [insertions |-> 0, deletions |-> 0, uncommitted_changes |-> 0]

\* result.stdout.strip().split("/")[-1] of get_default_branch.
default_branch_name(stdout) ==
    LET parts == split(strip(stdout), "/") IN parts[Len(parts)]

\* branch in [b.strip().lstrip("* ") for b in stdout.strip().split("\n")]
branch_in_merged(branch, stdout) ==
    LET lines == split(strip(stdout), "\n")
    IN  \E i \in 1..Len(lines) : lstrip(strip(lines[i]), {"*", " "}) = <<branch>>

count_or_one(result) ==
    IF result.returncode = 0 THEN int(strip(result.stdout)) ELSE 1

\* int(result.stdout.strip()) if result.returncode == 0 else 0
count_or_zero(result) ==
    IF result.returncode = 0 THEN int(strip(result.stdout)) ELSE 0

\* A lookup that failed counted as a remote branch.
has_remote_or_failed(result) ==
    strip(result.stdout) # <<>> \/ result.returncode # 0

\* has_remote = bool(result.stdout.strip())
has_remote_of(result) == strip(result.stdout) # <<>>

\* A command that throws the uncommitted changes away instead of measuring
\* them.
diff_stat_cmd_reset == "reset --hard"

\* ["git", "diff", "--stat", "HEAD"]
diff_stat_cmd == "diff --stat"

Query(cmd, cwd, ref) == [cmd |-> cmd, cwd |-> cwd, ref |-> ref]

Returned(status, queries) ==
    [exc |-> "none", status |-> status, queries |-> queries]

Raised(exc, queries) ==
    [exc |-> exc, status |-> NoStatus, queries |-> queries]

\* get_branch_status(tree_path, trunk_path, branch) against the environment
\* git: which of the two directories exist, and what each git sub-process
\* answers.  subprocess.run raises FileNotFoundError for a cwd that does not
\* exist, before any process is started; run_git (check=True) raises
\* CalledProcessError for a non-zero exit; the other calls ignore the exit
\* status.  The result is the returned status or the exception raised, with
\* the sub-processes started on the way.
get_branch_status(tree_path, trunk_path, branch, git) ==
    LET q1 == <<Query("ls-remote", "trunk", <<branch>>)>>
        q2 == q1 \o <<Query("symbolic-ref", "trunk", <<>>)>>
    IN
    IF ~git.trunk_exists THEN Raised("FileNotFoundError", <<>>)
    ELSE
    LET has_remote == has_remote_of(git.ls_remote) IN
    IF git.symbolic_ref.returncode # 0 THEN Raised("CalledProcessError", q2)
    ELSE
    LET default_branch == default_branch_name(git.symbolic_ref.stdout) IN
    IF ~git.tree_exists THEN Raised("FileNotFoundError", q2)
    ELSE
    LET q3 == q2 \o <<Query("branch --merged", "tree",
                            <<"origin", "/">> \o default_branch)>>
        is_merged == branch_in_merged(branch, git.branch_merged.stdout)
        base == IF has_remote THEN <<branch>> ELSE default_branch
        q4 == q3 \o <<Query("rev-list --count", "tree",
                            <<"origin", "/">> \o base \o <<"..", branch>>)>>
        unpushed_commits == count_or_zero(git.rev_list)
        q5 == q4 \o <<Query(diff_stat_cmd, "tree", <<"HEAD">>)>>
    IN
    Returned(BranchStatus(branch, tree_path, has_remote, is_merged,
                          unpushed_commits, parse_diff_stat(git.diff.stdout)),
             q5)

\* ------------------------------------------------------------ git, as seen

\* What git prints.  A failing git prints to stderr only and exits 128.
Ok(stdout) == [returncode |-> 0, stdout |-> stdout]

Failed == [returncode |-> 128, stdout |-> <<>>]

RECURSIVE str(_)
str(n) ==
    IF n < 10 THEN <<DigitChars[n + 1]>>
    ELSE str(n \div 10) \o <<DigitChars[(n % 10) + 1]>>

Plural(word, n) == IF n = 1 THEN <<word>> ELSE <<word, "s">>

\* A clause that git leaves out of the summary.
Absent == -1

DefaultBranch == "main"

\* git ls-remote --heads origin <branch>
LsRemoteOut(branch, remote) ==
    IF remote
    THEN <<"sha", "\t", "refs", "/", "heads", "/", branch, "\n">>
    ELSE <<>>

\* git symbolic-ref refs/remotes/origin/HEAD
SymbolicRefOut == <<"refs", "/", "remotes", "/", "origin", "/", DefaultBranch, "\n">>

\* git branch --merged origin/<default>, in the worktree of <branch>
BranchMergedOut(branch, merged) ==
    (IF merged THEN <<"*", " ", branch, "\n">> ELSE <<>>)
    \o <<" ", " ", "old", "\n">>

\* git rev-list --count <range>
RevListOut(n) == str(n) \o <<"\n">>

\* The last line of git diff --stat:
\* " <n> file(s) changed, <a> insertion(s)(+), <d> deletion(s)(-)".
SummaryLine(n, a, d) ==
    <<" ">> \o str(n) \o <<" ">> \o Plural("file", n) \o <<" ", "changed">>
    \o (IF a # Absent
        THEN <<",", " ">> \o str(a) \o <<" ">> \o Plural("insertion", a) \o <<"(+)">>
        ELSE <<>>)
    \o (IF d # Absent
        THEN <<",", " ">> \o str(d) \o <<" ">> \o Plural("deletion", d) \o <<"(-)">>
        ELSE <<>>)
    \o <<"\n">>

\* The per-file lines before the summary: none, or two files, the second
\* one named "7 insertion" and the first "9 deletion".
FileLines(files) ==
    IF files = 0 THEN <<>>
    ELSE <<" ", "9", " ", "deletion", " ", "|", " ", "3", " ", "+", "-", "\n",
           " ", "7", " ", "insertion", " ", "|", " ", "1", " ", "+", "\n">>

\* git diff --stat HEAD.  kind: "empty" (no change), "blank" (a newline),
\* "summary", or "other" (a last line without either clause).
DiffOut(diff) ==
    CASE diff.kind = "empty" -> <<>>
      [] diff.kind = "blank" -> <<"\n">>
      [] diff.kind = "summary" ->
            FileLines(diff.files) \o SummaryLine(IF diff.files = 0 THEN 1 ELSE 2, diff.a, diff.d)
      [] diff.kind = "other" ->
            FileLines(diff.files) \o <<" ", "1", " ", "file", " ", "changed", "\n">>

Counts == {Absent} \cup (0..MaxNum)

Diffs ==
    [kind : {"empty", "blank"}, files : {0}, a : {Absent}, d : {Absent}]
    \cup [kind : {"summary"}, files : {0, 2}, a : Counts, d : Counts]
    \cup [kind : {"other"}, files : {0, 2}, a : {Absent}, d : {Absent}]

SubQueries == {"ls-remote", "symbolic-ref", "branch --merged", "rev-list", "diff"}

Answer(q, fail, stdout) == IF q \in fail THEN Failed ELSE Ok(stdout)

\* The environment of one get_branch_status call: the worktree as it is
\* (remote, merged, ahead, diff) and the sub-processes that fail (fail).
GitEnv(branch, world, fail) ==
    [trunk_exists |-> world.trunk_exists,
     tree_exists |-> world.tree_exists,
     ls_remote |-> Answer("ls-remote", fail, LsRemoteOut(branch, world.remote)),
     symbolic_ref |-> Answer("symbolic-ref", fail, SymbolicRefOut),
     branch_merged |-> Answer("branch --merged", fail,
                              BranchMergedOut(branch, world.merged)),
     rev_list |-> Answer("rev-list", fail, RevListOut(world.ahead)),
     diff |-> Answer("diff", fail, DiffOut(world.diff))]

\* ------------------------------------------------------------ the state

VARIABLES
    call,           \* the arguments and environment of a single classification
    ret,            \* what that call returned or raised
    again,          \* the same call made a second time, and what it gave
    safe,           \* status.is_safe_to_clean of the returned status
    wt,             \* worktree directory -> the worktree as it is, or Gone
    heads,          \* the local branches of the trunks
    repo_dirs,      \* the repository directories that exist (each with a trunk)
    cmd,            \* the command that runs
    pc,             \* where it is
    dry_run,        \* --dry-run
    force,          \* --force
    answer,         \* what the user said to click.confirm
    discovered,     \* the worktrees found when the command started
    todo,           \* the worktrees still to classify, in scan order
    batch,          \* gtwsp: the statuses of the repository being scanned
    classified,     \* the worktrees a status was returned for
    to_clean,       \* the statuses found safe to clean
    removing,       \* the part of to_clean the removal loop has not reached
    affected_repos, \* grv: the repositories of the worktrees removed
    issued,         \* the deleting commands run so far
    outcome,        \* "running", "returned", "raised", "aborted" or "exec"
    entries,        \* grv list: the menu entries, (display, branch) each
    cache,          \* the status-bar callback's cache, by entry index
    fetched,        \* the branches get_footer_status was called with
    cursor,         \* the entry the menu highlights
    shown,          \* the status bar as last drawn
    moves,          \* how many times the status bar was drawn
    selected,       \* what menu.show() returned: an index, or 0 for None
    shell           \* what shell_into was called with

unit == <<call, ret, again, safe>>

world == <<wt, heads, repo_dirs>>

command ==
    <<cmd, pc, dry_run, force, answer, discovered, todo, batch, classified,
      to_clean, removing, affected_repos, issued, outcome>>

menu == <<entries, cache, fetched, cursor, shown, moves, selected, shell>>

vars == <<unit, world, command, menu>>

\* ------------------------------------------------- one classification call

NoCall == [branch |-> "-"]

NoRet == [exc |-> "-"]

\* A worktree and its trunk, as get_branch_status finds them.  With a trunk
\* that is no repository every git sub-process fails.
Truths ==
    [remote : BOOLEAN, merged : BOOLEAN, ahead : 0..MaxAhead, diff : Diffs]

Present == [trunk_exists |-> TRUE, trunk_git |-> TRUE, tree_exists |-> TRUE]

Broken ==
    [trunk_exists : {FALSE}, trunk_git : {FALSE}, tree_exists : BOOLEAN]
    \cup [trunk_exists : {TRUE}, trunk_git : {FALSE}, tree_exists : BOOLEAN]
    \cup [trunk_exists : {TRUE}, trunk_git : {TRUE}, tree_exists : {FALSE}]

World(dirs, truth) ==
    [trunk_exists |-> dirs.trunk_exists, trunk_git |-> dirs.trunk_git,
     tree_exists |-> dirs.tree_exists, remote |-> truth.remote,
     merged |-> truth.merged, ahead |-> truth.ahead, diff |-> truth.diff]

NoDiff == [kind |-> "empty", files |-> 0, a |-> Absent, d |-> Absent]

CleanTruth == [remote |-> TRUE, merged |-> TRUE, ahead |-> 0, diff |-> NoDiff]

Worlds ==
    {World(Present, truth) : truth \in Truths}
    \cup {World(dirs, CleanTruth) : dirs \in Broken}

Failing(w, fail) == IF w.trunk_git THEN fail ELSE SubQueries

tree_path(repo, branch) == <<repo, "tree_branches", branch>>

trunk_path(repo) == <<repo, "trunk">>

\* ------------------------------------------------------------ the workspace

Repos == <<"r1", "r2", "r3">>

Slots == {<<"r1", "a">>, <<"r1", "b">>, <<"r2", "a">>, <<"r3", "a">>}

\* The branch names in sorting order, and the place of a name in it.
BranchNames == <<"a", "b">>

Rank(name) == CHOOSE i \in 1..Len(BranchNames) : BranchNames[i] = name

Gone == [remote |-> FALSE, merged |-> FALSE, ahead |-> -1, diff |-> NoDiff]

\* A worktree of the workspace: pushed or not, ahead or not, edited or not,
\* with at most one of the three against cleaning it.
Edited == [kind |-> "summary", files |-> 0, a |-> 2, d |-> Absent]

WorkspaceTruths ==
    {t \in [remote : BOOLEAN, merged : BOOLEAN, ahead : {0, MaxAhead},
            diff : {NoDiff, Edited}] :
        /\ t.merged = (t.ahead = 0)
        /\ t.remote \/ (t.ahead = 0 /\ t.diff = NoDiff)
        /\ t.ahead = 0 \/ t.diff = NoDiff}

\* The status bar before the menu is drawn, and no shell entered.
NotDrawn == <<>>

NoShell == [name |-> "-", path |-> <<>>]

\* No command has run: the workspace is one of up to `repos`, each worktree
\* in one of `truths` or absent.
Workspace(repos, truths) ==
    /\ repo_dirs \in SUBSET repos
    /\ wt \in [Slots -> truths \cup {Gone}]
    /\ \A s \in Slots : s[1] \notin repo_dirs => wt[s] = Gone
    /\ heads = {s \in Slots : wt[s] # Gone}

Idle ==
    /\ entries = <<>>
    /\ cache = <<>>
    /\ fetched = <<>>
    /\ cursor = 0
    /\ shown = NotDrawn
    /\ moves = 0
    /\ selected = 0
    /\ shell = NoShell
    /\ cmd = "none"
    /\ pc = "idle"
    /\ dry_run = FALSE
    /\ force = FALSE
    /\ answer = "none"
    /\ discovered = {}
    /\ todo = <<>>
    /\ batch = {}
    /\ classified = {}
    /\ to_clean = <<>>
    /\ removing = <<>>
    /\ affected_repos = {}
    /\ issued = {}
    /\ outcome = "none"

InitStatus ==
    /\ call = NoCall
    /\ ret = NoRet
    /\ again = NoCall
    /\ safe = FALSE
    /\ wt = [s \in Slots |-> Gone]
    /\ heads = {}
    /\ repo_dirs = {}
    /\ Idle

\* status = get_branch_status(...); status.is_safe_to_clean
Classify ==
    /\ call = NoCall
    /\ \E w \in Worlds, fail \in SUBSET SubQueries :
         LET r == get_branch_status(tree_path("r1", "a"), trunk_path("r1"), "a",
                                    GitEnv("a", w, Failing(w, fail)))
         IN  /\ call' = [branch |-> "a", world |-> w, fail |-> fail]
             /\ ret' = r
             /\ again' = again
             /\ safe' = IF r.exc = "none" THEN is_safe_to_clean(r.status) ELSE FALSE
    /\ UNCHANGED <<world, command, menu>>

NextStatus == Classify

SpecStatus == InitStatus /\ [][NextStatus]_vars

\* ------------------------------------------------------------- the commands

\* get_all_repos: the repository directories with a trunk, sorted.
get_all_repos == SelectSeq(Repos, LAMBDA r : r \in repo_dirs)

\* The directories of tree_branches/ that hold a .git (lines 232-233).
branch_dirs(repo) == {s \in Slots : s[1] = repo /\ wt[s] # Gone}

\* The orders in which iterdir may list a set of directories.
Listings(dirs) ==
    {o \in [1..Cardinality(dirs) -> dirs] :
        \A i, j \in 1..Cardinality(dirs) : o[i] = o[j] => i = j}

\* A set of worktrees of one repository as a list sorted by branch name.
RECURSIVE sorted(_)
sorted(dirs) ==
    IF dirs = {} THEN <<>>
    ELSE LET first == CHOOSE s \in dirs :
                          \A t \in dirs : Rank(s[2]) <= Rank(t[2])
         IN  <<first>> \o sorted(dirs \ {first})

\* get_repo_branches_fast: the worktrees of a repository, without status.
get_repo_branches_fast(repo) == sorted(branch_dirs(repo))

RECURSIVE Flatten(_)
Flatten(lists) ==
    IF lists = <<>> THEN <<>> ELSE Head(lists) \o Flatten(Tail(lists))

\* sorted(branches, key=lambda b: b.name) of one repository's statuses.
RECURSIVE sorted_by_name(_)
sorted_by_name(statuses) ==
    IF statuses = {} THEN <<>>
    ELSE LET first == CHOOSE s \in statuses :
                          \A t \in statuses : Rank(s.name) <= Rank(t.name)
         IN  <<first>> \o sorted_by_name(statuses \ {first})

\* if status.is_safe_to_clean: to_clean.append(status)
append_always(list, status) == Append(list, status)

append_if_safe(list, status) ==
    IF is_safe_to_clean(status) THEN Append(list, status) ELSE list

RECURSIVE extend_if_safe(_, _)
extend_if_safe(list, statuses) ==
    IF statuses = <<>> THEN list
    ELSE extend_if_safe(append_if_safe(list, Head(statuses)), Tail(statuses))

\* Where the command goes after a classification: the scan loop ends before
\* anything else runs.
after_scan_early(rest) == "decide"

after_scan(rest) == IF rest = <<>> THEN "decide" ELSE "scan"

Begin(name, dry, frc, order, next) ==
    /\ cmd = "none"
    /\ cmd' = name
    /\ dry_run' = dry
    /\ force' = frc
    /\ discovered' = {order[i] : i \in 1..Len(order)}
    /\ todo' = order
    /\ pc' = next
    /\ outcome' = IF next = "done" THEN "returned" ELSE "running"
    /\ UNCHANGED <<menu, unit, world, answer, batch, classified, to_clean, removing,
                   affected_repos, issued>>

\* gtwsp list: for every repository, get_repo_branches and print.
gtwsp_list_cmd ==
    \E order \in [1..Len(get_all_repos) -> UNION {Listings(branch_dirs(r)) : r \in repo_dirs}] :
        /\ \A i \in 1..Len(get_all_repos) :
               order[i] \in Listings(branch_dirs(get_all_repos[i]))
        /\ Begin("gtwsp list", FALSE, FALSE, Flatten(order), "scan")

\* gtwsp clean: for every repository, get_repo_branches and keep the safe.
gtwsp_clean ==
    \E dry \in BOOLEAN, frc \in BOOLEAN,
       order \in [1..Len(get_all_repos) -> UNION {Listings(branch_dirs(r)) : r \in repo_dirs}] :
        /\ \A i \in 1..Len(get_all_repos) :
               order[i] \in Listings(branch_dirs(get_all_repos[i]))
        /\ Begin("gtwsp clean", dry, frc, Flatten(order), "scan")

\* grv clean, line 95: all the branches are collected first.
all_branches ==
    Flatten([i \in 1..Len(get_all_repos) |->
                get_repo_branches_fast(get_all_repos[i])])

\* grv clean, lines 89-101: nothing to scan without a repository or branch.
grv_clean ==
    \E dry \in BOOLEAN, frc \in BOOLEAN :
        /\ cmd = "none"
        /\ Begin("grv clean", dry, frc, all_branches,
                 IF all_branches = <<>> THEN "done" ELSE "scan")

FailModes == {{}} \cup {{q} : q \in SubQueries}

\* One turn of the scan: get_branch_status of the next worktree.  An
\* exception leaves the command; gtwsp sorts and filters a repository's
\* statuses when its last worktree is classified.
scan_branch ==
    /\ pc = "scan"
    /\ \E fail \in FailModes :
         IF todo = <<>>
         THEN /\ pc' = IF cmd = "gtwsp list" THEN "done" ELSE "decide"
              /\ outcome' = IF cmd = "gtwsp list" THEN "returned" ELSE outcome
              /\ UNCHANGED <<classified, todo, batch, to_clean>>
         ELSE
         LET slot == Head(todo)
             rest == Tail(todo)
             r == get_branch_status(tree_path(slot[1], slot[2]),
                                    trunk_path(slot[1]), slot[2],
                                    GitEnv(slot[2], World(Present, wt[slot]), fail))
             last == rest = <<>> \/ Head(rest)[1] # slot[1]
         IN  IF r.exc # "none"
             THEN /\ pc' = "done"
                  /\ outcome' = "raised"
                  /\ UNCHANGED <<classified, todo, batch, to_clean>>
             ELSE /\ classified' = classified \cup {slot}
                  /\ todo' = rest
                  /\ pc' = IF cmd # "gtwsp list" THEN after_scan(rest)
                           ELSE IF rest = <<>> THEN "done" ELSE "scan"
                  /\ outcome' = IF pc' = "done" THEN "returned" ELSE outcome
                  /\ IF cmd = "grv clean"
                     THEN /\ to_clean' = append_if_safe(to_clean, r.status)
                          /\ batch' = batch
                     ELSE IF last
                     THEN /\ to_clean' =
                                 IF cmd = "gtwsp clean"
                                 THEN extend_if_safe(to_clean,
                                          sorted_by_name(batch \cup {r.status}))
                                 ELSE to_clean
                          /\ batch' = {}
                     ELSE /\ to_clean' = to_clean
                          /\ batch' = batch \cup {r.status}
    /\ UNCHANGED <<menu, unit, world, cmd, dry_run, force, answer, discovered,
                   removing, affected_repos, issued>>

\* After the scan: nothing to clean, --dry-run, or click.confirm(abort=True)
\* unless --force.
clean_confirm ==
    /\ pc = "decide"
    /\ \E yes \in BOOLEAN :
         IF to_clean = <<>> \/ dry_run
         THEN /\ pc' = "done"
              /\ outcome' = "returned"
              /\ UNCHANGED <<answer, removing>>
         ELSE IF ~force /\ ~yes
         THEN /\ pc' = "done"
              /\ outcome' = "aborted"
              /\ answer' = "no"
              /\ UNCHANGED removing
         ELSE /\ pc' = "remove"
              /\ answer' = IF force THEN answer ELSE "yes"
              /\ removing' = to_clean
              /\ UNCHANGED outcome
    /\ UNCHANGED <<menu, unit, world, cmd, dry_run, force, discovered, todo, batch,
                   classified, to_clean, affected_repos, issued>>

\* gtwsp: branch.path.parent.parent; grv: the parts of the path before
\* "tree_branches".
parent(path) == SubSeq(path, 1, Len(path) - 1)

repo_root(path) ==
    IF cmd = "grv clean"
    THEN LET idx == CHOOSE i \in 1..Len(path) :
                        /\ path[i] = "tree_branches"
                        /\ \A j \in 1..(i - 1) : path[j] # "tree_branches"
         IN  SubSeq(path, 1, idx - 1)
    ELSE parent(parent(path))

\* One turn of the removal loop: git worktree remove <path> and
\* git branch -d <name> in the trunk, their exit status ignored.  git does
\* not delete a branch that a worktree has checked out.
clean_remove ==
    /\ pc = "remove"
    /\ removing # <<>>
    /\ \E wt_ok \in BOOLEAN, br_ok \in BOOLEAN :
         LET b == Head(removing)
             root == repo_root(b.path)
             slot == <<root[1], b.path[Len(b.path)]>>
             head == <<root[1], b.name>>
         IN  /\ wt' = IF wt_ok THEN [wt EXCEPT ![slot] = Gone] ELSE wt
             /\ heads' = IF br_ok /\ wt'[head] = Gone THEN heads \ {head} ELSE heads
             /\ affected_repos' = IF cmd = "grv clean"
                                  THEN affected_repos \cup {root[1]}
                                  ELSE affected_repos
             /\ issued' = issued \cup {[cmd |-> "worktree remove", target |-> b.path],
                                       [cmd |-> "branch -d", target |-> <<root[1], b.name>>]}
    /\ removing' = Tail(removing)
    /\ pc' = IF removing' # <<>> THEN "remove"
             ELSE IF cmd = "grv clean" THEN "repos" ELSE "done"
    /\ outcome' = IF pc' = "done" THEN "returned" ELSE outcome
    /\ UNCHANGED <<menu, unit, repo_dirs, cmd, dry_run, force, answer, discovered,
                   todo, batch, classified, to_clean>>

\* grv clean, lines 137-146: shutil.rmtree of every affected repository that
\* has no worktree left.
\* Every repository a removal was tried in, with or without branches left.
empty_repos_unchecked == affected_repos

\* for repo_root in affected_repos: if not get_repo_branches_fast(repo_root)
empty_repos == {r \in affected_repos : get_repo_branches_fast(r) = <<>>}

grv_clean_remove_empty_repos ==
    /\ pc = "repos"
    /\ LET empty == empty_repos
       IN  /\ repo_dirs' = repo_dirs \ empty
           /\ heads' = {h \in heads : h[1] \notin empty}
           /\ issued' = issued \cup {[cmd |-> "rmtree", target |-> <<r>>] : r \in empty}
    /\ pc' = "done"
    /\ outcome' = "returned"
    /\ UNCHANGED <<menu, unit, wt, cmd, dry_run, force, answer, discovered, todo,
                   batch, classified, to_clean, removing, affected_repos>>

Init ==
    /\ call = NoCall
    /\ ret = NoRet
    /\ again = NoCall
    /\ safe = FALSE
    /\ Workspace({"r1", "r2"}, WorkspaceTruths)
    /\ Idle

Next ==
    \/ gtwsp_list_cmd
    \/ gtwsp_clean
    \/ grv_clean
    \/ scan_branch
    \/ clean_confirm
    \/ clean_remove
    \/ grv_clean_remove_empty_repos

Spec == Init /\ [][Next]_vars

\* ------------------------------------------------- classification, twice

\* What a git command leaves behind in the worktree it runs in.  The five
\* commands of get_branch_status only read; reset --hard drops the
\* uncommitted changes.
git_effect(query, slot, trees) ==
    IF query.cmd = "reset --hard"
    THEN [trees EXCEPT ![slot].diff = NoDiff]
    ELSE trees

RECURSIVE git_effects(_, _, _)
git_effects(queries, slot, trees) ==
    IF queries = <<>> THEN trees
    ELSE git_effects(Tail(queries), slot, git_effect(Head(queries), slot, trees))

\* get_branch_status of a worktree of the workspace.
classify_first ==
    /\ call = NoCall
    /\ \E slot \in Slots, fail \in FailModes :
         /\ wt[slot] # Gone
         /\ LET r == get_branch_status(tree_path(slot[1], slot[2]),
                                       trunk_path(slot[1]), slot[2],
                                       GitEnv(slot[2], World(Present, wt[slot]), fail))
            IN  /\ call' = [branch |-> slot[2], slot |-> slot, fail |-> fail]
                /\ ret' = r
                /\ safe' = IF r.exc = "none" THEN is_safe_to_clean(r.status) ELSE FALSE
                /\ wt' = git_effects(r.queries, slot, wt)
    /\ UNCHANGED <<again, heads, repo_dirs, command, menu>>

\* The same call once more, nothing else having run in between; the
\* sub-processes that fail this time need not be those of the first call.
classify_second ==
    /\ call # NoCall
    /\ again = NoCall
    /\ \E fail \in FailModes :
         LET slot == call.slot
             r == get_branch_status(tree_path(slot[1], slot[2]),
                                    trunk_path(slot[1]), slot[2],
                                    GitEnv(slot[2], World(Present, wt[slot]), fail))
         IN  /\ again' = [branch |-> slot[2], fail |-> fail, ret |-> r]
             /\ wt' = git_effects(r.queries, slot, wt)
    /\ UNCHANGED <<call, ret, safe, heads, repo_dirs, command, menu>>

NextTwice == classify_first \/ classify_second

SpecTwice == Init /\ [][NextTwice]_vars

\* ------------------------------------------------------------- grv list

\* The tree-drawing pieces of grv.constants.
TREE_ITEM == "|-- "

TREE_LAST_ITEM == "+-- "

TREE_INDENT == "|   "

TREE_LAST_INDENT == "    "

TREE_BRANCH == "|--"

TREE_LAST_BRANCH == "+--"

\* A BranchInfo, and the None of a repository header.
BranchInfo(slot) == [name |-> slot[2], path |-> tree_path(slot[1], slot[2])]

NoBranch == [name |-> "-", path |-> <<>>]

\* One repository's entries: its header, then its branches.
repo_entries(repo, is_last_repo) ==
    LET branches == get_repo_branches_fast(repo)
        repo_prefix == IF is_last_repo THEN TREE_LAST_ITEM ELSE TREE_ITEM
        branch_indent == IF is_last_repo THEN TREE_LAST_INDENT ELSE TREE_INDENT
    IN  <<[display |-> <<repo_prefix, repo>>, branch |-> NoBranch]>>
        \o [bi \in 1..Len(branches) |->
               LET is_last == bi = Len(branches)
                   branch_prefix == IF is_last THEN TREE_LAST_BRANCH ELSE TREE_BRANCH
               IN  [display |-> <<branch_indent, branch_prefix, " ", branches[bi][2]>>,
                    branch |-> BranchInfo(branches[bi])]]

\* build_menu_entries: the repositories that have branches, as a tree.
build_menu_entries ==
    LET repos == SelectSeq(get_all_repos, LAMBDA r : get_repo_branches_fast(r) # <<>>)
    IN  Flatten([ri \in 1..Len(repos) |-> repo_entries(repos[ri], ri = Len(repos))])

\* get_footer_status: what the status bar tells of a branch.
get_footer_status(branch) ==
    LET t == wt[<<branch.path[1], branch.path[3]>>]
        ins == IF t.diff.a = Absent THEN 0 ELSE t.diff.a
        del == IF t.diff.d = Absent THEN 0 ELSE t.diff.d
    IN  [base_branch |-> DefaultBranch, has_remote |-> t.remote,
         unpushed |-> t.ahead, uncommitted |-> ins + del,
         insertions |-> ins, deletions |-> del,
         is_clean |-> t.remote /\ t.ahead = 0 /\ ins + del = 0]

NoFooter == [base_branch |-> "-"]

\* _format_status_bar: the controls, then the parts of the git status line.
_format_status_bar(status) ==
    IF status = NoFooter THEN <<<<"controls">>>>
    ELSE <<<<"controls">>, <<"base: ", status.base_branch>>>>
         \o <<IF status.has_remote THEN <<"remote: yes">> ELSE <<"remote: no">>>>
         \o (IF status.unpushed > 0
             THEN <<<<"unpushed: ">> \o str(status.unpushed)>> ELSE <<>>)
         \o (IF status.uncommitted > 0
             THEN <<<<"uncommitted: +">> \o str(status.insertions)
                    \o <<"/-">> \o str(status.deletions)>>
             ELSE <<>>)
         \o (IF status.is_clean THEN <<<<"[clean]">>>> ELSE <<>>)

\* next(i for i, (d, _) in enumerate(entries) if d == entry), 0 for
\* StopIteration.
index_of(entry) ==
    IF \E i \in 1..Len(entries) : entries[i].display = entry
    THEN CHOOSE i \in 1..Len(entries) :
             /\ entries[i].display = entry
             /\ \A j \in 1..(i - 1) : entries[j].display # entry
    ELSE 0

\* next((i for i, e in enumerate(entries) if e[1] is not None), 0)
first_branch(es) ==
    IF \E i \in 1..Len(es) : es[i].branch # NoBranch
    THEN CHOOSE i \in 1..Len(es) :
             /\ es[i].branch # NoBranch
             /\ \A j \in 1..(i - 1) : es[j].branch = NoBranch
    ELSE 1

\* How often the menu is redrawn before the user decides.
MaxMoves == 3

\* grv list up to menu.show(): no repository, no branch, or the menu.
grv_list_cmd ==
    /\ cmd = "none"
    /\ cmd' = "grv list"
    /\ IF get_all_repos = <<>> \/ build_menu_entries = <<>>
       THEN /\ pc' = "done"
            /\ outcome' = "returned"
            /\ UNCHANGED <<entries, cursor>>
       ELSE /\ pc' = "menu"
            /\ outcome' = "running"
            /\ entries' = build_menu_entries
            /\ cursor' = first_branch(build_menu_entries)
    /\ UNCHANGED <<unit, world, dry_run, force, answer, discovered, todo, batch,
                   classified, to_clean, removing, affected_repos, issued,
                   cache, fetched, shown, moves, selected, shell>>

\* The menu draws itself with entry i highlighted and asks the callback for
\* the status bar, passing the entry's text.
status_bar_callback ==
    /\ pc = "menu"
    /\ moves < MaxMoves
    /\ \E i \in 1..Len(entries) :
         /\ moves = 0 => i = cursor
         /\ cursor' = i
         /\ LET idx == index_of(entries[i].display)
                branch == entries[idx].branch
            IN  IF idx = 0
                THEN /\ shown' = _format_status_bar(NoFooter)
                     /\ UNCHANGED <<cache, fetched>>
                ELSE IF idx \in DOMAIN cache
                THEN /\ shown' = _format_status_bar(cache[idx])
                     /\ UNCHANGED <<cache, fetched>>
                ELSE IF branch = NoBranch
                THEN /\ cache' = cache @@ (idx :> NoFooter)
                     /\ shown' = _format_status_bar(NoFooter)
                     /\ UNCHANGED fetched
                ELSE /\ fetched' = Append(fetched, branch)
                     /\ cache' = cache @@ (idx :> get_footer_status(branch))
                     /\ shown' = _format_status_bar(get_footer_status(branch))
    /\ moves' = moves + 1
    /\ UNCHANGED <<unit, world, command, entries, selected, shell>>

AcceptKeys == {"enter", "s", "c", "d"}

NoResult == <<>>

\* interactive_select after menu.show(): None, or (path, name, action).
interactive_select(sel, key) ==
    IF sel = 0 THEN NoResult
    ELSE IF entries[sel].branch = NoBranch THEN NoResult
    ELSE LET branch == entries[sel].branch
             action == IF key \in {"enter", "s"} THEN "SHELL"
                       ELSE IF key = "c" THEN "CLEAN"
                       ELSE IF key = "d" THEN "DELETE"
                       ELSE "SHELL"
         IN  <<branch.path, branch.name, action>>

\* The user leaves the menu (sel = 0) or accepts the highlighted entry, and
\* list_cmd goes on: path, branch_name = result; shell_into(path, branch_name).
menu_show_returns ==
    /\ pc = "menu"
    /\ moves > 0
    /\ \E sel \in {0, cursor}, key \in AcceptKeys :
         LET result == interactive_select(sel, key)
         IN  /\ selected' = sel
             /\ IF result = NoResult
                THEN /\ outcome' = "returned"
                     /\ shell' = NoShell
                ELSE IF Len(result) # 2
                THEN /\ outcome' = "raised"
                     /\ shell' = NoShell
                ELSE /\ outcome' = "exec"
                     /\ shell' = [name |-> result[2], path |-> result[1]]
    /\ pc' = "done"
    /\ UNCHANGED <<unit, world, cmd, dry_run, force, answer, discovered, todo,
                   batch, classified, to_clean, removing, affected_repos, issued,
                   entries, cache, fetched, cursor, shown, moves>>

\* The worktrees of the menu's workspace: pushed and clean, or edited.
MenuTruths ==
    {CleanTruth, [remote |-> TRUE, merged |-> TRUE, ahead |-> 0, diff |-> Edited]}

InitMenu ==
    /\ call = NoCall
    /\ ret = NoRet
    /\ again = NoCall
    /\ safe = FALSE
    /\ Workspace({Repos[i] : i \in 1..Len(Repos)}, MenuTruths)
    /\ Idle

NextMenu == grv_list_cmd \/ status_bar_callback \/ menu_show_returns

SpecMenu == InitMenu /\ [][NextMenu]_vars

\* ---------------------------------------------------------------- claims

Called == call # NoCall

Intact ==
    /\ Called
    /\ call.world.trunk_exists
    /\ call.world.trunk_git
    /\ call.world.tree_exists

ReturnedStatus == Called /\ ret.exc = "none"

Fails(q) == Called /\ q \in call.fail

\* C1: the verdict on a returned status is true exactly when the status has
\* a remote, no unpushed commit and no uncommitted change; without a remote
\* it is never safe to clean.
C1_SafeIffRemoteAndNothingLocal ==
    ReturnedStatus =>
        /\ safe <=> (/\ ret.status.has_remote
                     /\ ret.status.unpushed_commits = 0
                     /\ ret.status.uncommitted_changes = 0)
        /\ ~ret.status.has_remote => ~safe

C1_Witness ==
    /\ ReturnedStatus
    /\ ~ret.status.has_remote
    /\ ret.status.unpushed_commits = 0
    /\ ret.status.uncommitted_changes = 0
    /\ ~safe

\* C2: with both directories in place, get_branch_status returns a status
\* whatever sub-processes exit non-zero.
C2_NeverAborts == Intact => ret.exc = "none"

\* C3, as claimed: when a sub-process failed, a worktree that has commits
\* its remote branch lacks, or uncommitted changes, is not found safe.
C3_FailureNeverSafe ==
    (/\ ReturnedStatus
     /\ call.fail # {}
     /\ \/ call.world.remote /\ call.world.ahead > 0
        \/ /\ call.world.diff.kind = "summary"
           /\ call.world.diff.a > 0 \/ call.world.diff.d > 0)
    => ~safe

\* C3, amended: when the remote-head lookup failed, the returned status is
\* not safe to clean.
C3_FailedLookupNeverSafe == (ReturnedStatus /\ Fails("ls-remote")) => ~safe

C3_Witness ==
    /\ ReturnedStatus
    /\ call.fail = {"ls-remote"}
    /\ call.world.remote
    /\ ret.status.unpushed_commits = 0
    /\ ret.status.uncommitted_changes = 0
    /\ ~safe

\* C5: a missing worktree directory, a missing trunk or a trunk without
\* .git raises before any sub-process is started.
C5_StructuralFailureFirst ==
    (Called /\ ~Intact) => (ret.exc # "none" /\ ret.queries = <<>>)

\* C8: a failed commit count gives unpushed_commits = 0 and no exception,
\* counted against origin/<branch> with a remote and against
\* origin/<default> without.
C8_FailedCountIsZero ==
    (Intact /\ Fails("rev-list") /\ ~Fails("symbolic-ref")) =>
        /\ ret.exc = "none"
        /\ ret.status.unpushed_commits = 0
        /\ ret.queries[4].cmd = "rev-list --count"
        /\ ret.queries[4].ref =
               IF ret.status.has_remote
               THEN <<"origin", "/", "a", "..", "a">>
               ELSE <<"origin", "/", DefaultBranch, "..", "a">>

C8_Witness ==
    /\ ReturnedStatus
    /\ Fails("rev-list")
    /\ call.world.ahead > 0
    /\ ~ret.status.has_remote
    /\ ret.status.unpushed_commits = 0

\* C9: a returned status has uncommitted_changes = insertions + deletions.
C9_ChangesAreSum ==
    ReturnedStatus =>
        ret.status.uncommitted_changes = ret.status.insertions + ret.status.deletions

C9_Witness ==
    /\ ReturnedStatus
    /\ ret.status.insertions > 0
    /\ ret.status.deletions > 0
    /\ ret.status.uncommitted_changes > ret.status.insertions

Given(n) == IF n = Absent THEN 0 ELSE n

\* C10: the counts are those of the last line of the diff: the number of
\* the insertion clause and of the deletion clause, 0 for a clause left out;
\* no output, or a last line with neither clause, gives 0, 0, 0.
C10_ParsesLastLine ==
    (Intact /\ ~Fails("symbolic-ref")) =>
        /\ ret.exc = "none"
        /\ ret.status.insertions =
               IF Fails("diff") THEN 0 ELSE Given(call.world.diff.a)
        /\ ret.status.deletions =
               IF Fails("diff") THEN 0 ELSE Given(call.world.diff.d)
        /\ ret.status.uncommitted_changes =
               IF Fails("diff") THEN 0
               ELSE Given(call.world.diff.a) + Given(call.world.diff.d)

C10_Witness ==
    /\ ReturnedStatus
    /\ ~Fails("diff")
    /\ call.world.diff.files = 2
    /\ call.world.diff.a = Absent
    /\ call.world.diff.d = MaxNum
    /\ ret.status.insertions = 0
    /\ ret.status.deletions = MaxNum

Over == cmd # "none" /\ pc = "done"

\* C4: a scan is never given up: when the command is over, every worktree
\* it found has been classified.
C4_ScanNeverAborted == Over => (outcome # "raised" /\ classified = discovered)

\* C6: a deleting command runs only when every worktree found has been
\* classified.
C6_DeleteAfterScan == issued # {} => (todo = <<>> /\ classified = discovered)

C6_Witness ==
    /\ issued # {}
    /\ Cardinality(discovered) = 3
    /\ Len(to_clean) = 1

IsSafeStatus(b) ==
    b.has_remote /\ b.unpushed_commits = 0 /\ b.uncommitted_changes = 0

CleanedSafe ==
    \A c \in issued :
        c.cmd # "rmtree" =>
            \E i \in 1..Len(to_clean) :
                /\ IsSafeStatus(to_clean[i])
                /\ \/ c.cmd = "worktree remove" /\ c.target = to_clean[i].path
                   \/ /\ c.cmd = "branch -d"
                      /\ c.target = <<to_clean[i].path[1], to_clean[i].name>>

NothingToDo == dry_run \/ answer = "no" \/ to_clean = <<>>

\* C7: worktree remove and branch -d are run only for statuses that are
\* safe to clean; with --dry-run, a declined confirmation or nothing safe,
\* no deleting command is run and no worktree, branch or repository goes.
C7_OnlySafeRemoved ==
    /\ [](CleanedSafe /\ (NothingToDo => issued = {}))
    /\ [][NothingToDo => UNCHANGED world]_vars

C7_Witness ==
    /\ Over
    /\ issued # {}
    /\ \E s \in classified :
           /\ wt[s] # Gone
           /\ \A i \in 1..Len(to_clean) : to_clean[i].path # tree_path(s[1], s[2])

CalledTwice == call # NoCall /\ again # NoCall

ListOver == cmd = "grv list" /\ pc = "done"

Highlighted == entries[cursor].branch

\* C12: in grv list, accepting a branch entry of the menu enters a shell in
\* that branch's worktree (shell_into gets that branch's path and name);
\* leaving the menu or accepting a repository header enters no shell.
C12_AcceptEntersShell ==
    ListOver =>
        IF selected # 0 /\ entries # <<>> /\ Highlighted # NoBranch
        THEN outcome = "exec" /\ shell = Highlighted
        ELSE shell = NoShell

\* C13: while the menu is up, the status bar drawn for a highlighted branch
\* entry is the status of that entry's own branch; get_footer_status is
\* called at most once for a branch and never for a repository header.
C13_OwnStatusShown ==
    /\ (pc = "menu" /\ moves > 0 /\ Highlighted # NoBranch) =>
           shown = _format_status_bar(get_footer_status(Highlighted))
    /\ \A i, j \in 1..Len(fetched) : fetched[i] = fetched[j] => i = j
    /\ \A i \in 1..Len(fetched) : fetched[i] # NoBranch

Tried(slot) ==
    [cmd |-> "worktree remove", target |-> tree_path(slot[1], slot[2])] \in issued

HoldsWorktrees(r) == \E s \in Slots : s[1] = r /\ wt[s] # Gone

\* C14: grv clean deletes a repository directory only when a worktree of that
\* repository was among those it just removed and no worktree of it is left;
\* a repository that still holds a worktree, one whose removal failed or one
\* that was not cleaned, keeps its directory and the branches of its trunk.
C14_OnlyEmptiedReposDeleted ==
    /\ [][\A r \in repo_dirs \ repo_dirs' :
             /\ cmd = "grv clean"
             /\ \E s \in Slots : s[1] = r /\ Tried(s)
             /\ ~HoldsWorktrees(r)]_vars
    /\ [][\A r \in repo_dirs :
             HoldsWorktrees(r) =>
                 /\ r \in repo_dirs'
                 /\ pc = "repos" =>
                        {h \in heads' : h[1] = r} = {h \in heads : h[1] = r}]_vars

C14_Witness ==
    /\ cmd = "grv clean"
    /\ pc = "done"
    /\ [cmd |-> "rmtree", target |-> <<"r2">>] \in issued
    /\ "r2" \notin repo_dirs
    /\ Tried(<<"r1", "a">>)
    /\ wt[<<"r1", "a">>] # Gone
    /\ "r1" \in repo_dirs

====
